---------------------------- MODULE Spec2Model ----------------------------
(***************************************************************************)
(* Hot path verification via LLVM IR analysis (perf/verify_hot_path.rs).   *)
(*                                                                         *)
(* IR text, function names, lines and messages are strings; the line       *)
(* checks, the body extractor, the discoverer and the mangler are          *)
(* operators on strings that follow the source's substring tests and       *)
(* regular expressions character by character.                            *)
(***************************************************************************)
EXTENDS Integers, Sequences, FiniteSets, TLC

(***************************************************************************)
(* Strings                                                                 *)
(***************************************************************************)

\* str[i], as a one-character string
Char(s, i) == SubSeq(s, i, i)

\* the literal p stands in s at position i
StartsAt(s, p, i) ==
    /\ i >= 1
    /\ i + Len(p) - 1 <= Len(s)
    /\ SubSeq(s, i, i + Len(p) - 1) = p

\* str::contains(&str)
Contains(s, p) == \E i \in 1..(Len(s) - Len(p) + 1) : StartsAt(s, p, i)

\* position of the first occurrence of the literal p in s at or after
\* position from; 0 when there is none
\* the one element of a singleton
Only(S) == CHOOSE v \in S : TRUE

\* {position of the first occurrence of the literal p in s at or after
\* position from}; {} when there is none
FirstOf(s, p, from) ==
    {i \in from..(Len(s) - Len(p) + 1) :
        StartsAt(s, p, i) /\ \A j \in from..(i - 1) : ~StartsAt(s, p, j)}

\* the same as a number, 0 when there is none
FirstPos(s, p, from) ==
    IF FirstOf(s, p, from) = {} THEN 0 ELSE Only(FirstOf(s, p, from))

\* every character of s[a..b] lies outside the class `not`
NoneOf(s, a, b, not) == \A k \in a..b : Char(s, k) \notin not

\* the regex class \s
WhiteSpace == {" ", "\t", "\n", "\r", "\f"}

\* the regex class \w (ASCII part)
WordChars ==
    {"a","b","c","d","e","f","g","h","i","j","k","l","m",
     "n","o","p","q","r","s","t","u","v","w","x","y","z",
     "A","B","C","D","E","F","G","H","I","J","K","L","M",
     "N","O","P","Q","R","S","T","U","V","W","X","Y","Z",
     "0","1","2","3","4","5","6","7","8","9","_"}

\* Option<String>
None == <<>>
Some(x) == <<x>>

Digits == <<"0", "1", "2", "3", "4", "5", "6", "7", "8", "9">>

\* format!("{}", n) of a usize
RECURSIVE Dec(_)
Dec(n) == IF n < 10 THEN Digits[n + 1]
          ELSE Dec(n \div 10) \o Digits[(n % 10) + 1]

\* str::split(sep) collected: the pieces between the non-overlapping
\* occurrences of sep, found left to right
RECURSIVE Split(_, _)
Split(s, sep) ==
    Only({IF i = 0 THEN <<s>>
          ELSE <<SubSeq(s, 1, i - 1)>> \o Split(SubSeq(s, i + Len(sep), Len(s)), sep) :
             i \in {FirstPos(s, sep, 1)}})

\* [String]::join("")
RECURSIVE Join(_)
Join(parts) == IF parts = <<>> THEN "" ELSE Head(parts) \o Join(Tail(parts))

\* str::lines() collected: split at "\n", one trailing "\r" of a line
\* dropped, no last empty line after a final "\n", nothing for ""
StripCr(l) ==
    IF Len(l) > 0 /\ Char(l, Len(l)) = "\r" THEN SubSeq(l, 1, Len(l) - 1) ELSE l

RECURSIVE Lines(_)
Lines(s) ==
    IF s = "" THEN <<>>
    ELSE Only({IF i = 0 THEN <<StripCr(s)>>
               ELSE <<StripCr(SubSeq(s, 1, i - 1))>> \o Lines(SubSeq(s, i + 1, Len(s))) :
                  i \in {FirstPos(s, "\n", 1)}})

(***************************************************************************)
(* The checks (trait HotPathCheck)                                         *)
(***************************************************************************)

AllocationCheck_check_line(line) ==
    IF /\ Contains(line, "call")
       /\ \/ Contains(line, "@malloc")
          \/ Contains(line, "@calloc")
          \/ Contains(line, "@realloc")
          \/ Contains(line, "@alloc")
          \/ Contains(line, "@__rust_alloc")
          \/ Contains(line, "@__rust_realloc")
    THEN Some("contains allocation (real-time violation)")
    ELSE None

AtomicCheck_check_line(line) ==
    IF \/ Contains(line, "atomicrmw")
       \/ Contains(line, "cmpxchg")
       \/ Contains(line, " fence ")
    THEN Some("contains atomic operation (real-time violation)")
    ELSE None

IndirectionCheck_check_line(line) ==
    IF Contains(line, "invoke") \/ Contains(line, "callbr")
    THEN Some("contains indirection")
    ELSE None

FunctionCallCheck_check_line(line) ==
    IF Contains(line, "call") /\ ~Contains(line, "@llvm.")
    THEN IF \/ Contains(line, "@malloc")
            \/ Contains(line, "@calloc")
            \/ Contains(line, "@realloc")
            \/ Contains(line, "@alloc")
         THEN None
         ELSE Some("contains function call (not inlined)")
    ELSE None

VolatileLoadCheck_check_line(line) ==
    IF Contains(line, "load") /\ Contains(line, "volatile")
    THEN Some("volatile load (forces memory access, ~100-300 cycles)")
    ELSE None

VolatileStoreCheck_check_line(line) ==
    IF Contains(line, "store") /\ Contains(line, "volatile")
    THEN Some("volatile store (forces write-through, ~100-300 cycles)")
    ELSE None

DivisionCheck_check_line(line) ==
    IF \/ Contains(line, " sdiv ")
       \/ Contains(line, " udiv ")
       \/ Contains(line, " srem ")
       \/ Contains(line, " urem ")
    THEN Some("division/modulo operation (10-40 cycles, not pipelined)")
    ELSE None

UnalignedAccessCheck_check_line(line) ==
    IF (Contains(line, "load") \/ Contains(line, "store")) /\ Contains(line, "align 1")
    THEN Some("unaligned memory access (2-10x slower, blocks SIMD)")
    ELSE None

NonInboundsGepCheck_check_line(line) ==
    IF Contains(line, "getelementptr") /\ ~Contains(line, "inbounds")
    THEN Some("non-inbounds GEP (adds bounds checks, prevents optimization)")
    ELSE None

\* HotPathCheck::severity of the check whose name() is c
severity(c) ==
    IF c \in {"allocation", "atomic", "indirection", "function_call"}
    THEN "Error" ELSE "Warning"

\* HotPathCheck::check_line of the check whose name() is c (dyn dispatch)
check_line(c, line) ==
    CASE c = "allocation"       -> AllocationCheck_check_line(line)
      [] c = "atomic"           -> AtomicCheck_check_line(line)
      [] c = "indirection"      -> IndirectionCheck_check_line(line)
      [] c = "function_call"    -> FunctionCallCheck_check_line(line)
      [] c = "volatile_load"    -> VolatileLoadCheck_check_line(line)
      [] c = "volatile_store"   -> VolatileStoreCheck_check_line(line)
      [] c = "division"         -> DivisionCheck_check_line(line)
      [] c = "unaligned_access" -> UnalignedAccessCheck_check_line(line)
      [] c = "non_inbounds_gep" -> NonInboundsGepCheck_check_line(line)

\* with_default_checks with the atomic check registered first
with_default_checks_atomic_first ==
    <<"atomic", "indirection", "allocation", "function_call",
      "volatile_load", "volatile_store", "division",
      "unaligned_access", "non_inbounds_gep">>

\* HotPathVerifier::new().with_default_checks(): the checks, by name, in
\* registration order
with_default_checks ==
    <<"indirection", "allocation", "function_call", "atomic",
      "volatile_load", "volatile_store", "division",
      "unaligned_access", "non_inbounds_gep">>

(***************************************************************************)
(* Symbol mangler                                                          *)
(***************************************************************************)

\* MangleSegment with the length after the text
MangleSegment_length_last(segment) == segment \o Dec(Len(segment))

\* format!("{}{}", segment.len(), segment)
MangleSegment(segment) == Dec(Len(segment)) \o segment

mangle_rust_path(path) ==
    LET segs == Split(path, "::")
    IN  Join([i \in 1..Len(segs) |-> MangleSegment(segs[i])])

(***************************************************************************)
(* Function body extractor                                                 *)
(***************************************************************************)

\* The tail of the pattern after the escaped name,
\*     [^\(]*\([^\)]*\)[^\{]*\{(.*?)\n\}
\* tried at position p.  Each negated class stops at the first occurrence
\* of the character that follows it; `.` matches no "\n", so the lazy group
\* ends at the first "\n" after the brace, which must be followed by "}".
\* {<<first, last>>} of group 1, or {} when the tail does not match.
BodyTail(ir, p) ==
    UNION {UNION {UNION {
        {<<lb + 1, nl - 1>> : nl \in {k \in FirstOf(ir, "\n", lb + 1) : StartsAt(ir, "}", k + 1)}}
            : lb \in FirstOf(ir, "{", rp + 1)}
            : rp \in FirstOf(ir, ")", lp + 1)}
            : lp \in FirstOf(ir, "(", p)}

\* The positions j at which [^\s]*NAME can end its class and begin the name,
\* with the "@" at position at, such that the tail matches after the name
NameStarts(ir, name, at) ==
    {j \in (at + 1)..Len(ir) :
        /\ StartsAt(ir, name, j)
        /\ NoneOf(ir, at + 1, j - 1, WhiteSpace)
        /\ BodyTail(ir, j + Len(name)) # {}}

\* The pattern define[^@]*@[^\s]*NAME<tail> tried with `define` at d:
\* the "@" is the first one after the keyword; [^\s]* is greedy, so the
\* rightmost start of NAME in the symbol's run of non-blanks for which the
\* tail matches is taken.  Group 1 as BodyTail gives it.
BodyAt(ir, name, d) ==
    UNION {UNION {UNION {BodyTail(ir, j + Len(name)) :
                           j \in {x \in starts : \A y \in starts : y <= x}}
                    : starts \in {NameStarts(ir, name, at)}}
              : at \in FirstOf(ir, "@", d + 6)}

\* the positions of `define` at which the pattern matches
DefineStarts(ir, name) ==
    {d \in 1..Len(ir) : StartsAt(ir, "define", d) /\ BodyAt(ir, name, d) # {}}

\* Regex::captures: the leftmost position at which the pattern matches
BodyCapture(ir, name) ==
    UNION {UNION {BodyAt(ir, name, d) : d \in {x \in starts : \A y \in starts : x <= y}}
              : starts \in {DefineStarts(ir, name)}}

\* Result<_, String>
Ok(v) == [tag |-> "Ok", val |-> v]
Err(m) == [tag |-> "Err", val |-> m]

\* the name the pattern is built from
SearchName(func_name) ==
    IF Contains(func_name, "::") THEN mangle_rust_path(func_name) ELSE func_name

\* find_function_body naming the mangled name in its message
find_function_body_search_name(ir, func_name) ==
    Only({IF cap = {}
          THEN Err("Function " \o SearchName(func_name) \o " not found in IR")
          ELSE Ok(Only({SubSeq(ir, c[1], c[2]) : c \in cap})) :
             cap \in {UNION {BodyCapture(ir, search_name) : search_name \in {SearchName(func_name)}}}})

find_function_body(ir, func_name) ==
    Only({IF cap = {}
          THEN Err("Function " \o func_name \o " not found in IR")
          ELSE Ok(Only({SubSeq(ir, c[1], c[2]) : c \in cap})) :
             cap \in {UNION {BodyCapture(ir, search_name) : search_name \in {SearchName(func_name)}}}})

(***************************************************************************)
(* Hot-function discoverer                                                 *)
(***************************************************************************)

\* the position after the longest run of \s characters that starts at p
AfterBlanks(s, p) ==
    Only({k \in p..(Len(s) + 1) :
             /\ k = Len(s) + 1 \/ Char(s, k) \notin WhiteSpace
             /\ \A j \in p..(k - 1) : Char(s, j) \in WhiteSpace})

\* The tail .*section\s+"\.hot_funcs" tried at position p: the positions
\* after a match, one for each `section` on p's line that is followed by
\* blanks and the quoted section name
SectionTails(ir, p) ==
    UNION {{b + 12 : b \in {b \in {AfterBlanks(ir, k + 7)} :
                               b > k + 7 /\ StartsAt(ir, "\".hot_funcs\"", b)}}
              : k \in {k \in p..Len(ir) :
                          StartsAt(ir, "section", k) /\ NoneOf(ir, p, k - 1, {"\n"})}}

\* `.*` is greedy: the match ends after the last of them
SectionTail(ir, p) ==
    UNION {{e \in ends : \A f \in ends : f <= e} : ends \in {SectionTails(ir, p)}}

\* The ends e of \w+ begun at position w for which the tail matches
RefEnds(ir, w) ==
    {e \in w..Len(ir) :
        /\ \A k \in w..e : Char(ir, k) \in WordChars
        /\ SectionTail(ir, e + 1) # {}}

\* re_ptr = ptr\s+(@alloc_\w+).*section\s+"\.hot_funcs" tried with `ptr` at
\* i: \s+ takes the whole run of blanks, and \w+ is greedy, so the longest
\* run of word characters for which the tail matches ends group 1.
\* {[ref |-> group 1, next |-> position after the match]}, or {}.
PtrAt(ir, i) ==
    UNION {UNION {{[ref |-> SubSeq(ir, a, e), next |-> n] : n \in SectionTail(ir, e + 1)}
                    : e \in UNION {{x \in ends : \A y \in ends : y <= x} :
                                      ends \in {RefEnds(ir, a + 7)}}}
              : a \in {a \in {AfterBlanks(ir, i + 3)} : a > i + 3 /\ StartsAt(ir, "@alloc_", a)}}

\* the leftmost match of re_ptr at or after position from
PtrNext(ir, from) ==
    UNION {UNION {PtrAt(ir, i) : i \in {x \in starts : \A y \in starts : x <= y}}
              : starts \in {{x \in from..Len(ir) : StartsAt(ir, "ptr", x) /\ PtrAt(ir, x) # {}}}}

\* re_ptr.captures_iter(ir): group 1 of the successive non-overlapping
\* leftmost matches, from position `from` on
RECURSIVE PtrCaptures(_, _)
PtrCaptures(ir, from) ==
    Only({IF m = {} THEN <<>>
          ELSE Only({<<x.ref>> \o PtrCaptures(ir, x.next) : x \in m}) :
             m \in {PtrNext(ir, from)}})

\* PayloadAt with the terminator left in the group
PayloadAt_keep_nul(ir, k) ==
    {SubSeq(ir, k + 2, q - 1) :
        q \in {q \in FirstOf(ir, "\"", k + 2) : q - 4 >= k + 2 /\ StartsAt(ir, "\\00", q - 3)}}

\* The tail \s*=.*?c"([^"]+)\\00" tried at position p (after the escaped
\* reference), with c" at position k: [^"]+ ends before the first quote,
\* which the three characters \00 must precede, and holds one character at
\* least.  {group 1}, or {}.
PayloadAt(ir, k) ==
    {SubSeq(ir, k + 2, q - 4) :
        q \in {q \in FirstOf(ir, "\"", k + 2) : q - 4 >= k + 2 /\ StartsAt(ir, "\\00", q - 3)}}

\* `.*?` is lazy and matches no "\n": the first c" on the line of the "="
\* at which the tail matches is taken
PayloadTail(ir, p) ==
    UNION {UNION {UNION {PayloadAt(ir, k) : k \in {x \in opens : \A y \in opens : x <= y}}
                    : opens \in {{x \in (eq + 1)..Len(ir) :
                                    /\ StartsAt(ir, "c\"", x)
                                    /\ NoneOf(ir, eq + 1, x - 1, {"\n"})
                                    /\ PayloadAt(ir, x) # {}}}}
              : eq \in {e \in {AfterBlanks(ir, p)} : StartsAt(ir, "=", e)}}

\* re_alloc.captures(ir) for the reference alloc_ref: {group 1} of the
\* leftmost match, or {}
AllocPayload(ir, alloc_ref) ==
    UNION {UNION {PayloadTail(ir, i + Len(alloc_ref)) :
                    i \in {x \in starts : \A y \in starts : x <= y}}
              : starts \in {{x \in 1..Len(ir) :
                              /\ StartsAt(ir, alloc_ref, x)
                              /\ PayloadTail(ir, x + Len(alloc_ref)) # {}}}}

\* HashSet<String>: the payload of every reference that has one
find_hot_functions_from_ir(ir) ==
    UNION {UNION {AllocPayload(ir, refs[i]) : i \in 1..Len(refs)} :
              refs \in {PtrCaptures(ir, 1)}}

(***************************************************************************)
(* Verifier orchestration                                                  *)
(***************************************************************************)

\* the unit value of Result<(), _>
Unit == "()"

\* verify_step with the early return lost: an Error finding is pushed like
\* a Warning and the scan goes on
verify_step_no_return(func_name, w, c, line) ==
    Only({IF violation = None THEN [ret |-> None, warnings |-> w]
          ELSE [ret |-> None, warnings |-> Append(w, func_name \o ": " \o violation[1])] :
             violation \in {check_line(c, line)}})

\* verify_step putting a Warning finding at the front of the accumulator
verify_step_push_front(func_name, w, c, line) ==
    Only({IF violation = None THEN [ret |-> None, warnings |-> w]
          ELSE IF severity(c) = "Error"
          THEN [ret |-> Some(Err(func_name \o ": " \o violation[1])), warnings |-> w]
          ELSE [ret |-> None, warnings |-> <<func_name \o ": " \o violation[1]>> \o w] :
             violation \in {check_line(c, line)}})

\* One turn of verify's inner loop: check c on `line`, with the warnings w
\* accumulated so far.  ret is Some(result) when verify returns from inside
\* the loop, None when the loop goes on.
verify_step(func_name, w, c, line) ==
    Only({IF violation = None THEN [ret |-> None, warnings |-> w]
          ELSE IF severity(c) = "Error"
          THEN [ret |-> Some(Err(func_name \o ": " \o violation[1])), warnings |-> w]
          ELSE [ret |-> None, warnings |-> Append(w, func_name \o ": " \o violation[1])] :
             violation \in {check_line(c, line)}})

\* verify_hot_function: verifier.verify(ir, func_name).map(|_| ())
verify_hot_function_map(r) == IF r.tag = "Ok" THEN Ok(Unit) ELSE r

\* batch_step passing over a function that is not in the IR text
batch_step_skip_missing(r) ==
    IF r.tag = "Err" /\ ~Contains(r.val, "not found") THEN Some(Err(r.val)) ELSE None

\* verify_hot_path_functions' loop body, verifier.verify(ir, &func)
\* .map_err(|e| e)?: Some(result) when the function returns from inside the
\* loop, None when the loop goes on (the Ok value is dropped)
batch_step(r) == IF r.tag = "Err" THEN Some(Err(r.val)) ELSE None

(***************************************************************************)
(* Inputs                                                                  *)
(***************************************************************************)

\* the longest body of a generated function, in instructions
MaxInstr == 2
\* the most .hot_funcs entries of a generated IR text
MaxHot == 2
\* the longest generated path, in segments
MaxSegs == 3

Instrs ==
    {"%1 = call ptr @malloc(i64 16)",
     "%2 = atomicrmw add ptr %p, i32 1 seq_cst",
     "%3 = invoke i32 @g() to label %a unwind label %b",
     "%4 = load volatile i32, ptr %p",
     "%5 = sdiv i32 %a, %b",
     "%6 = call i32 @llvm.sadd.sat.i32(i32 %a, i32 %b)",
     "call void @llvm.memcpy.p0.p0.i64(ptr %p, ptr @alloc_7, i64 4, i1 false)",
     "ret i32 0"}

Bodies == UNION {[1..n -> Instrs] : n \in 0..MaxInstr}

RECURSIVE Indented(_, _)
Indented(instrs, end) ==
    IF instrs = <<>> THEN ""
    ELSE "  " \o Head(instrs) \o end \o Indented(Tail(instrs), end)

\* a definition as the tests of the source write it: the instructions on
\* the header's line, then a line holding the closing brace
InlineDef(sym, instrs) ==
    "define i32 @" \o sym \o "(ptr %p) {" \o Indented(instrs, "") \o "\n}\n"

\* a definition as the IR printer writes it: the header on a line of its
\* own, one line per instruction, then a line holding the closing brace
BlockDef(sym, instrs) ==
    "define i32 @" \o sym \o "(ptr %p) {\n" \o Indented(instrs, "\n") \o "}\n"

Def(fmt, sym, instrs) ==
    IF fmt = "inline" THEN InlineDef(sym, instrs) ELSE BlockDef(sym, instrs)

\* a string constant backing a name, and the .hot_funcs entry pointing to it
StrConst(id, text) ==
    "@alloc_" \o id \o " = constant [4 x i8] c\"" \o text \o "\\00\", align 1\n"

HotEntry(id) ==
    "@HOT_FUNC." \o id \o " = constant <{ ptr, [8 x i8] }> <{ ptr @alloc_" \o id
        \o ", [8 x i8] c\"\\03\\00\\00\\00\\00\\00\\00\\00\" }>, section \".hot_funcs\"\n"

\* the entries marked[1..n]: constant i holds the payload marked[i]
RECURSIVE HotSection(_, _)
HotSection(marked, i) ==
    IF i > Len(marked) THEN ""
    ELSE StrConst(Dec(i), marked[i]) \o HotEntry(Dec(i)) \o HotSection(marked, i + 1)

\* the names the generated hot functions carry and the symbols they compile to
HotNames == {"m::foo", "bar"}
SymbolOf(name) == IF name = "m::foo" THEN "_ZN1m3foo17h0E" ELSE name

\* what a generated IR text holds for a hot name: no definition, or one
\* with this body
BatchBodies ==
    {<<>>,
     <<"%1 = call ptr @malloc(i64 16)">>,
     <<"%4 = load volatile i32, ptr %p">>}
Absent == <<"absent">>

\* an unmarked string constant and an unmarked function
Unmarked ==
    "@alloc_9 = constant [4 x i8] c\"baz\\00\", align 1\n"
        \o "define i32 @baz() {  ret i32 10\n}\n"

BatchIr(marked, defs) ==
    HotSection(marked, 1) \o Unmarked
        \o (IF defs["m::foo"] = Absent THEN "" ELSE InlineDef(SymbolOf("m::foo"), defs["m::foo"]))
        \o (IF defs["bar"] = Absent THEN "" ELSE InlineDef(SymbolOf("bar"), defs["bar"]))

\* a verifier built with with_check calls of the caller's own
CustomChecks == <<"division", "atomic", "volatile_load", "allocation">>

Segments == {"a", "b", "c", "foo", "node_arena"}

RECURSIVE JoinPath(_)
JoinPath(segs) ==
    IF Len(segs) = 1 THEN segs[1] ELSE segs[1] \o "::" \o JoinPath(Tail(segs))

(***************************************************************************)
(* State                                                                   *)
(***************************************************************************)

VARIABLES
    given,      \* what the IR text (or path) was generated from
    entry,      \* the function called
    ir,         \* its ir argument
    arg,        \* its func_name (or path) argument
    checks,     \* the verifier's checks, by name
    pc,         \* "call", "batch", "scan", "done"
    hot_funcs,  \* verify_hot_path_functions: the names still to iterate
    func_name,  \* verify: its func_name
    lines,      \* verify: body.lines()
    li,         \* verify: the line the outer loop is at
    ci,         \* verify: the check the inner loop is at
    warnings,   \* verify: its accumulator
    result,     \* the value the called function returned
    run,        \* which call on this input this is: "first", "second"
    first,      \* the value the first call returned
    discovered, \* history: what find_hot_functions_from_ir returned
    calls,      \* history: the func_name of each verify call of this run
    rets,       \* history: what each finished verify call returned
    evaluated,  \* history: the <<line, check>> pairs the current verify evaluated
    produced    \* history: the Warning findings produced in this run

vars == <<given, entry, ir, arg, checks, pc, hot_funcs, func_name, lines, li, ci,
          warnings, result, run, first, discovered, calls, rets, evaluated, produced>>

input == <<given, entry, ir, arg, checks>>

NoResult == [tag |-> "none", val |-> ""]

\* the state in which a call starts
Fresh ==
    /\ pc = "call"
    /\ hot_funcs = {}
    /\ func_name = ""
    /\ lines = <<>>
    /\ li = 1
    /\ ci = 1
    /\ warnings = <<>>
    /\ result = NoResult
    /\ discovered = {}
    /\ calls = <<>>
    /\ rets = <<>>
    /\ evaluated = <<>>
    /\ produced = <<>>

\* the calls made on the IR text of one function: the function's symbol,
\* the name asked for, the function called and the verifier's checks
SingleCalls ==
    {[sym |-> "test_func", arg |-> "test_func", entry |-> "verify",
      checks |-> with_default_checks],
     [sym |-> "test_func", arg |-> "test_func", entry |-> "verify",
      checks |-> CustomChecks],
     [sym |-> "test_func", arg |-> "test_func", entry |-> "verify_hot_function",
      checks |-> with_default_checks],
     [sym |-> "_ZN1m1f17h0E", arg |-> "m::f", entry |-> "verify",
      checks |-> with_default_checks],
     [sym |-> "test_func", arg |-> "m::f", entry |-> "verify_hot_function",
      checks |-> with_default_checks]}

\* HotPathVerifier::verify or verify_hot_function on the IR text of one
\* function
InitSingle ==
    \E fmt \in {"inline", "block"}, instrs \in Bodies, c \in SingleCalls :
        /\ given = [kind |-> "single", fmt |-> fmt, sym |-> c.sym, instrs |-> instrs]
        /\ ir = Def(fmt, c.sym, instrs)
        /\ arg = c.arg
        /\ entry = c.entry
        /\ checks = c.checks

\* verify_hot_path_functions on an IR text with n .hot_funcs entries
InitBatch ==
    \E n \in 0..MaxHot :
      \E marked \in [1..n -> HotNames], defs \in [HotNames -> BatchBodies \cup {Absent}] :
        /\ given = [kind |-> "batch", marked |-> marked, defs |-> defs]
        /\ ir = BatchIr(marked, defs)
        /\ arg = ""
        /\ entry = "verify_hot_path_functions"
        /\ checks = with_default_checks

Init ==
    /\ InitSingle \/ InitBatch
    /\ run = "first"
    /\ first = NoResult
    /\ Fresh

(***************************************************************************)
(* Steps                                                                   *)
(***************************************************************************)

\* verify returns r to the function that called it
VerifyReturn(r) ==
    /\ rets' = Append(rets, r)
    /\ IF entry = "verify"
       THEN result' = r /\ pc' = "done"
       ELSE IF entry = "verify_hot_function"
       THEN result' = verify_hot_function_map(r) /\ pc' = "done"
       ELSE IF batch_step(r) # None
       THEN result' = batch_step(r)[1] /\ pc' = "done"
       ELSE result' = result /\ pc' = "batch"

\* verify(ir, f) up to its loop
VerifyCall(f) ==
    \E body \in {find_function_body(ir, f)} :
        /\ func_name' = f
        /\ calls' = Append(calls, f)
        /\ evaluated' = <<>>
        /\ warnings' = <<>>
        /\ li' = 1
        /\ ci' = 1
        /\ IF body.tag = "Err"
           THEN lines' = <<>> /\ VerifyReturn(body)
           ELSE /\ lines' = Lines(body.val)
                /\ pc' = "scan"
                /\ UNCHANGED <<rets, result>>

\* verifier.verify(ir, func_name) / verify_hot_function(ir, func_name)
Call ==
    /\ pc = "call"
    /\ entry \in {"verify", "verify_hot_function"}
    /\ VerifyCall(arg)
    /\ UNCHANGED <<input, hot_funcs, run, first, discovered, produced>>

\* one turn of the inner loop of verify
CheckStep ==
    /\ pc = "scan"
    /\ li <= Len(lines)
    /\ \E st \in {verify_step(func_name, warnings, checks[ci], lines[li])} :
           /\ evaluated' = Append(evaluated, <<li, ci>>)
           /\ warnings' = st.warnings
           /\ produced' = produced \o SubSeq(st.warnings, Len(warnings) + 1, Len(st.warnings))
           /\ IF st.ret # None
              THEN VerifyReturn(st.ret[1]) /\ UNCHANGED <<li, ci>>
              ELSE /\ UNCHANGED <<pc, result, rets>>
                   /\ IF ci < Len(checks)
                      THEN ci' = ci + 1 /\ li' = li
                      ELSE ci' = 1 /\ li' = li + 1
    /\ UNCHANGED <<input, hot_funcs, func_name, lines, run, first, discovered, calls>>

\* verify after its loop: Ok(warnings)
ScanEnd ==
    /\ pc = "scan"
    /\ li > Len(lines)
    /\ VerifyReturn(Ok(warnings))
    /\ UNCHANGED <<input, hot_funcs, func_name, lines, li, ci, warnings, run, first,
                   discovered, calls, evaluated, produced>>

\* verify_hot_path_functions up to its loop
Discover ==
    /\ pc = "call"
    /\ entry = "verify_hot_path_functions"
    /\ hot_funcs' = find_hot_functions_from_ir(ir)
    /\ discovered' = hot_funcs'
    /\ pc' = "batch"
    /\ UNCHANGED <<input, func_name, lines, li, ci, warnings, result, run, first,
                   calls, rets, evaluated, produced>>

\* the loop of verify_hot_path_functions takes the next name: a HashSet
\* with the default RandomState iterates in an order that differs from one
\* set to the next, so any name still to iterate may come
BatchNext ==
    /\ pc = "batch"
    /\ \E f \in hot_funcs :
          /\ hot_funcs' = hot_funcs \ {f}
          /\ VerifyCall(f)
    /\ UNCHANGED <<input, run, first, discovered, produced>>

\* verify_hot_path_functions after its loop: Ok(())
BatchEnd ==
    /\ pc = "batch"
    /\ hot_funcs = {}
    /\ result' = Ok(Unit)
    /\ pc' = "done"
    /\ UNCHANGED <<input, hot_funcs, func_name, lines, li, ci, warnings, run, first,
                   discovered, calls, rets, evaluated, produced>>

\* the caller calls verify_hot_path_functions again on the same IR text
Rerun ==
    /\ pc = "done"
    /\ entry = "verify_hot_path_functions"
    /\ run = "first"
    /\ run' = "second"
    /\ first' = result
    /\ pc' = "call"
    /\ hot_funcs' = {}
    /\ func_name' = ""
    /\ lines' = <<>>
    /\ li' = 1
    /\ ci' = 1
    /\ warnings' = <<>>
    /\ result' = NoResult
    /\ discovered' = {}
    /\ calls' = <<>>
    /\ rets' = <<>>
    /\ evaluated' = <<>>
    /\ produced' = <<>>
    /\ UNCHANGED input

Next == Call \/ CheckStep \/ ScanEnd \/ Discover \/ BatchNext \/ BatchEnd \/ Rerun

Spec == Init /\ [][Next]_vars

(***************************************************************************)
(* The mangler alone                                                       *)
(***************************************************************************)

InitMangle ==
    /\ \E n \in 1..MaxSegs : \E segs \in [1..n -> Segments] :
          /\ given = [kind |-> "path", segs |-> segs]
          /\ arg = JoinPath(segs)
    /\ entry = "mangle_rust_path"
    /\ ir = ""
    /\ checks = <<>>
    /\ run = "first"
    /\ first = NoResult
    /\ Fresh

\* mangle_rust_path(path)
Mangle ==
    /\ pc = "call"
    /\ entry = "mangle_rust_path"
    /\ result' = Ok(mangle_rust_path(arg))
    /\ pc' = "done"
    /\ UNCHANGED <<input, hot_funcs, func_name, lines, li, ci, warnings, run, first,
                   discovered, calls, rets, evaluated, produced>>

SpecMangle == InitMangle /\ [][Mangle]_vars

(***************************************************************************)
(* The allocation and function-call checks alone                           *)
(***************************************************************************)

\* the most instructions on a generated line
MaxParts == 2

\* instructions a line is made of
LineParts ==
    {"%1 = call ptr @malloc(i64 16)",
     "%1 = call ptr @calloc(i64 1, i64 16)",
     "%1 = call ptr @realloc(ptr %p, i64 32)",
     "%1 = call ptr @alloc(i64 16)",
     "%1 = call ptr @__rust_alloc(i64 16, i64 8)",
     "%1 = call ptr @__rust_realloc(ptr %p, i64 16, i64 8, i64 32)",
     "%1 = call i32 @helper(i32 %a)",
     "%1 = call i32 @llvm.sadd.sat.i32(i32 %a, i32 %b)",
     "%1 = add i32 %a, %b",
     "%1 = load i32, ptr @alloc_7"}

\* the instructions on one line, two blanks before each as in the tests
RECURSIVE JoinParts(_)
JoinParts(parts) ==
    IF parts = <<>> THEN "" ELSE "  " \o Head(parts) \o JoinParts(Tail(parts))

InitCheckLine ==
    /\ \E n \in 1..MaxParts : \E parts \in [1..n -> LineParts] :
          /\ given = [kind |-> "line", parts |-> parts]
          /\ arg = JoinParts(parts)
    /\ entry = "check_line"
    /\ ir = ""
    /\ checks = <<"allocation", "function_call">>
    /\ run = "first"
    /\ first = NoResult
    /\ Fresh

\* AllocationCheck.check_line(line) and FunctionCallCheck.check_line(line)
CheckLine ==
    /\ pc = "call"
    /\ entry = "check_line"
    /\ result' = Ok([c \in 1..Len(checks) |-> check_line(checks[c], arg)])
    /\ pc' = "done"
    /\ UNCHANGED <<input, hot_funcs, func_name, lines, li, ci, warnings, run, first,
                   discovered, calls, rets, evaluated, produced>>

SpecCheckLine == InitCheckLine /\ [][CheckLine]_vars

(***************************************************************************)
(* Properties                                                              *)
(***************************************************************************)

Batch == entry = "verify_hot_path_functions"

\* <<line, check>> pairs in the order verify's loops visit them
Before(p, q) == p[1] < q[1] \/ (p[1] = q[1] /\ p[2] < q[2])

ScanOrder(k) == <<((k - 1) \div Len(checks)) + 1, ((k - 1) % Len(checks)) + 1>>

\* the pairs of the current body at which an Error-severity check fires
ErrorPairs ==
    {p \in (1..Len(lines)) \X (1..Len(checks)) :
        severity(checks[p[2]]) = "Error" /\ check_line(checks[p[2]], lines[p[1]]) # None}

Finding(p) == check_line(checks[p[2]], lines[p[1]])[1]

\* the pattern of find_function_body matches somewhere in the IR text
Located(f) == BodyCapture(ir, SearchName(f)) # {}

\* C1: verify is fail-fast.  The pairs are evaluated in scan order (lines in
\* order, within a line the checks in registration order); once a pair at
\* which an Error-severity check fires has been evaluated, it is the last
\* pair evaluated, the verify call has returned, and what it returned is
\* Err with the one message "<func_name>: <that check's finding>".
C1_FailFast ==
    /\ \A k \in 1..Len(evaluated) : evaluated[k] = ScanOrder(k)
    /\ \A p \in ErrorPairs :
          (\E k \in 1..Len(evaluated) : evaluated[k] = p) =>
              /\ evaluated[Len(evaluated)] = p
              /\ pc = "done"
              /\ Len(rets) = Len(calls)
              /\ rets[Len(rets)] = Err(func_name \o ": " \o Finding(p))
              /\ result = rets[Len(rets)]

\* C1 witness: verify has returned the finding of the first firing pair
\* while a later pair of the body, never evaluated, fires an Error too
C1_Witness ==
    /\ pc = "done"
    /\ entry = "verify"
    /\ result.tag = "Err"
    /\ \E p \in ErrorPairs, q \in ErrorPairs :
          /\ evaluated[Len(evaluated)] = p
          /\ Before(p, q)
          /\ result.val = func_name \o ": " \o Finding(p)

\* the lines of a generated body as the IR text holds them
BodyLinesOf(instrs) == [i \in 1..Len(instrs) |-> "  " \o instrs[i]]

\* C2: for a function written as a header line, k body lines and a line
\* holding the closing brace, find_function_body called with the function's
\* name returns exactly the k body lines in order, so that verify scans them.
C2_BodyLines ==
    (/\ given.kind = "single"
     /\ given.fmt = "block"
     /\ arg = given.sym
     /\ pc # "call")
        => /\ lines = BodyLinesOf(given.instrs)
           /\ \A i \in 1..Len(rets) : ~Contains(rets[i].val, "not found")

C4_Deterministic ==
    (Batch /\ run = "second" /\ pc = "done") => result = first

\* C5: a verify call for a name the IR text has no matching definition for
\* has returned at once, with an Err whose message holds "not found" and the
\* name as asked for; no line was split off, no check evaluated, no warning
\* pushed, and verify and verify_hot_function return that Err.
C5_NotFound ==
    \A i \in 1..Len(calls) :
        ~Located(calls[i]) =>
            /\ i <= Len(rets)
            /\ rets[i].tag = "Err"
            /\ Contains(rets[i].val, "not found")
            /\ Contains(rets[i].val, calls[i])
            /\ i = Len(calls) => lines = <<>> /\ evaluated = <<>> /\ warnings = <<>>
            /\ ~Batch => pc = "done" /\ result = rets[i] /\ produced = <<>>

\* C5 witness: a name with "::" was asked for and not found
C5_Witness ==
    /\ pc = "done"
    /\ arg = "m::f"
    /\ given.sym = "test_func"
    /\ result = Err("Function m::f not found in IR")
    /\ evaluated = <<>>

\* the generated instructions that call an allocation symbol
AllocCalls == {"%1 = call ptr @malloc(i64 16)"}

HasAllocCall(instrs) == \E i \in 1..Len(instrs) : instrs[i] \in AllocCalls

\* a function of one definition was verified with the default checks, its
\* body was extracted and holds a call to an allocation symbol
AllocCase ==
    /\ given.kind = "single"
    /\ checks = with_default_checks
    /\ pc = "done"
    /\ Located(arg)
    /\ HasAllocCall(given.instrs)

\* C6 as claimed: verifying a function whose body holds a call to an
\* allocation symbol returns a failure whose message contains "allocation",
\* whatever else the body holds.
C6_AlwaysAllocation ==
    AllocCase => result.tag = "Err" /\ Contains(result.val, "allocation")

\* the lines on which a call to an allocation symbol stands
AllocLines == {l \in 1..Len(lines) : \E a \in AllocCalls : Contains(lines[l], a)}

\* C6 as amended: the result is a failure carrying one message (and so no
\* warning); the message contains "allocation" unless an Error-severity
\* check fired before AllocationCheck came to the call: IndirectionCheck on
\* the call's line, or an Error-severity check on an earlier line.
C6_AllocationUnlessEarlierError ==
    AllocCase =>
        /\ result.tag = "Err"
        /\ AllocLines # {}
        /\ \A l \in AllocLines :
              (/\ IndirectionCheck_check_line(lines[l]) = None
               /\ \A p \in ErrorPairs : p[1] >= l)
                  => Contains(result.val, "allocation")

\* C6 witness: the allocation call is not the first instruction, a Warning
\* check fires on the body too, and the failure names the allocation
C6_Witness ==
    /\ AllocCase
    /\ given.instrs = <<"%4 = load volatile i32, ptr %p", "%1 = call ptr @malloc(i64 16)">>
    /\ result = Err("test_func: contains allocation (real-time violation)")
    /\ produced = <<>>

\* the payloads of the constants the generated .hot_funcs entries point to
MarkedNames == {given.marked[i] : i \in 1..Len(given.marked)}

\* C7 as claimed: with N .hot_funcs entries pointing to N distinct string
\* constants, discovery returns exactly N names, the payloads.
C7_ExactlyN ==
    (Batch /\ pc # "call") =>
        discovered = MarkedNames /\ Cardinality(discovered) = Len(given.marked)

\* C7 as amended: discovery returns the set of the payloads of the
\* constants pointed to, the \00 stripped: as many names as there are
\* different payloads (N when no two constants hold the same payload, none
\* when N = 0), and no name of an unmarked constant or function.
C7_PayloadSet ==
    (Batch /\ pc # "call") =>
        /\ discovered = MarkedNames
        /\ "baz" \notin discovered
        /\ (\A i, j \in 1..Len(given.marked) : given.marked[i] = given.marked[j] => i = j)
              => Cardinality(discovered) = Len(given.marked)

\* C7 witness: two entries, two payloads, two names
C7_Witness ==
    /\ Batch
    /\ pc = "batch"
    /\ Len(given.marked) = 2
    /\ discovered = {"m::foo", "bar"}

\* the warnings the called function handed to its caller
Returned == IF entry = "verify" /\ result.tag = "Ok" THEN result.val ELSE <<>>

\* C8: when the called function returns success, the Warning findings
\* produced while scanning are returned with it, at every entry point.
C8_WarningsReturned ==
    (pc = "done" /\ result.tag = "Ok") => Returned = produced

\* the generated instructions that are no call to a function that is not an
\* intrinsic, no atomic, no invoke and no callbr
IntrinsicOrPlain ==
    {"%4 = load volatile i32, ptr %p",
     "%5 = sdiv i32 %a, %b",
     "%6 = call i32 @llvm.sadd.sat.i32(i32 %a, i32 %b)",
     "call void @llvm.memcpy.p0.p0.i64(ptr %p, ptr @alloc_7, i64 4, i1 false)",
     "ret i32 0"}

\* C9: with the default checks, verifying a located function whose only
\* calls are calls to @llvm. intrinsics, with no atomic, invoke or callbr,
\* returns success, whatever the operands of those calls.
C9_IntrinsicsAllowed ==
    (/\ given.kind = "single"
     /\ given.fmt = "inline"
     /\ arg = given.sym
     /\ checks = with_default_checks
     /\ pc = "done"
     /\ \A i \in 1..Len(given.instrs) : given.instrs[i] \in IntrinsicOrPlain)
        => result.tag = "Ok"

\* the mangled form read off the segments, the lengths written by ToString
RECURSIVE Mangled(_)
Mangled(segs) ==
    IF segs = <<>> THEN ""
    ELSE ToString(Len(Head(segs))) \o Head(segs) \o Mangled(Tail(segs))

\* C10: mangle_rust_path of s1::s2::...::sn returns, for every path, the
\* concatenation in order of each segment's decimal length and the segment.
C10_Mangle ==
    (entry = "mangle_rust_path" /\ pc = "done") => result = Ok(Mangled(given.segs))

\* C10 witness: a::b::c was mangled to 1a1b1c
C10_Witness ==
    /\ entry = "mangle_rust_path"
    /\ pc = "done"
    /\ arg = "a::b::c"
    /\ result = Ok("1a1b1c")

\* the messages of the Warning checks firing at the first k pairs of the
\* current body in scan order
RECURSIVE WarningsUpTo(_)
WarningsUpTo(k) ==
    IF k = 0 THEN <<>>
    ELSE IF /\ severity(checks[ScanOrder(k)[2]]) = "Warning"
            /\ check_line(checks[ScanOrder(k)[2]], lines[ScanOrder(k)[1]]) # None
         THEN Append(WarningsUpTo(k - 1), func_name \o ": " \o Finding(ScanOrder(k)))
         ELSE WarningsUpTo(k - 1)

\* the verify call made last has returned Ok
VerifyOk == calls # <<>> /\ Len(rets) = Len(calls) /\ rets[Len(rets)].tag = "Ok"

\* C11: a verify call on a located function in whose body no Error-severity
\* check fires returns Ok; what a verify call returns with Ok is the list
\* of one message "<func_name>: <finding>" per (line, Warning check) pair
\* that fires, in scan order (by line, within a line by registration order
\* of the checks), every pair of the body having been evaluated; the list
\* is empty when no check fires.
C11_WarningList ==
    /\ (/\ entry = "verify"
        /\ pc = "done"
        /\ Located(arg)
        /\ ErrorPairs = {}) => result.tag = "Ok"
    /\ VerifyOk =>
          /\ ErrorPairs = {}
          /\ Len(evaluated) = Len(lines) * Len(checks)
          /\ rets[Len(rets)].val = WarningsUpTo(Len(lines) * Len(checks))
          /\ (\A l \in 1..Len(lines), c \in 1..Len(checks) :
                 check_line(checks[c], lines[l]) = None) => rets[Len(rets)].val = <<>>
          /\ entry = "verify" => result = rets[Len(rets)]

\* C11 witness: two Warning checks fired on the body, under checks whose
\* registration order is not the order of the default set, and verify
\* returned the two messages in registration order
C11_Witness ==
    /\ entry = "verify"
    /\ pc = "done"
    /\ checks = CustomChecks
    /\ result = Ok(<<"test_func: division/modulo operation (10-40 cycles, not pipelined)",
                     "test_func: volatile load (forces memory access, ~100-300 cycles)">>)

\* the generated instructions that call a function that is no intrinsic
NonIntrinsicCalls ==
    {"%1 = call ptr @malloc(i64 16)",
     "%1 = call ptr @calloc(i64 1, i64 16)",
     "%1 = call ptr @realloc(ptr %p, i64 32)",
     "%1 = call ptr @alloc(i64 16)",
     "%1 = call ptr @__rust_alloc(i64 16, i64 8)",
     "%1 = call ptr @__rust_realloc(ptr %p, i64 16, i64 8, i64 32)",
     "%1 = call i32 @helper(i32 %a)"}

HasNonIntrinsicCall(parts) == \E i \in 1..Len(parts) : parts[i] \in NonIntrinsicCalls

\* C12: no line is flagged both as an allocation and as a function call:
\* on a line on which AllocationCheck fires FunctionCallCheck returns no
\* finding, and FunctionCallCheck fires exactly on the lines holding a call
\* to a function that is no intrinsic on which AllocationCheck does not fire.
C12_NoDoubleFlag ==
    (entry = "check_line" /\ pc = "done") =>
        /\ result.val[1] # None => result.val[2] = None
        /\ result.val[2] # None <=>
              (HasNonIntrinsicCall(given.parts) /\ result.val[1] = None)

=============================================================================
